---- MODULE Spec2Model ----
(***************************************************************************)
(* The vacon signaling server (signaling-server.py): one asyncio task per  *)
(* websocket connection runs handle_websocket; all tasks share the         *)
(* process-wide dict `sessions`.  asyncio runs the tasks cooperatively on  *)
(* one thread, so the code between two `await`s is one atomic step.  Each  *)
(* action below is the code a handler runs from one suspension point to    *)
(* the next.                                                               *)
(***************************************************************************)
EXTENDS Integers, Sequences, FiniteSets, TLC

\* ------------------------------------------------------------- bounds
NConn == 3      \* connections accepted over one run
MaxRecv == 1    \* messages received over one run, any session identifiers
NRelay == 2     \* connections accepted over one run, one session identifier
MaxRelay == 3   \* messages received over one run, one session identifier

Conns == 1..(IF NConn >= NRelay THEN NConn ELSE NRelay)

\* ------------------------------------------------------------- paths
\* A path is a sequence of characters.
Prefix == <<"/", "v", "1", "/", "o", "o", "o", "/">>

Paths == { Prefix,
           Prefix \o <<"a">>,
           Prefix \o <<"A">>,
           <<"/", "o", "t", "h", "e", "r">> }

\* Python's None for the local session_id.
None == <<"None">>

\* A prefix test that compares the first character only.
StartsWithFirstChar(p, pre) ==
    /\ Len(p) >= 1
    /\ p[1] = pre[1]

\* str.startswith
StartsWith(p, pre) ==
    /\ Len(p) >= Len(pre)
    /\ SubSeq(p, 1, Len(pre)) = pre

\* Positions at which sep occurs in p.
Occurrences(p, sep) ==
    { k \in 1..(Len(p) - Len(sep) + 1) : SubSeq(p, k, k + Len(sep) - 1) = sep }

\* A partition that folds the case of the identifier.
PartitionLastFolded(p, sep) ==
    LET k == CHOOSE i \in Occurrences(p, sep) :
                 \A j \in Occurrences(p, sep) : i <= j
        t == SubSeq(p, k + Len(sep), Len(p))
    IN  IF Occurrences(p, sep) = {}
        THEN <<>>
        ELSE [i \in 1..Len(t) |-> IF t[i] = "A" THEN "a" ELSE t[i]]

\* str.partition(sep)[-1]: what follows the first occurrence of sep,
\* the empty string when sep does not occur.
PartitionLast(p, sep) ==
    IF Occurrences(p, sep) = {}
    THEN <<>>
    ELSE LET k == CHOOSE i \in Occurrences(p, sep) :
                      \A j \in Occurrences(p, sep) : i <= j
         IN  SubSeq(p, k + Len(sep), Len(p))

\* Truth value of `if session_id:` - None and the empty string are false.
Truthy(sid) == sid # None /\ sid # <<>>

\* ------------------------------------------------------------- state
VARIABLES
    accepted,    \* number of connections accepted so far
    path,        \* path[c]: request path of connection c
    closed,      \* closed[c]: the peer or the transport closed connection c
    pc,          \* pc[c]: where handler c is suspended
    session_id,  \* session_id[c]: the handler's local session_id
    session,     \* session[c]: the session object the handler's local refers to
    data,        \* data[c]: the message being broadcast; the text of the
                 \* n-th message that arrives on a connection is written n
    it,          \* it[c]: next index of the list iterator of the for loop
    tgt,         \* tgt[c]: peer whose send the handler awaits
    sessions,    \* the dict sessions: session id -> session object
    objs,        \* heap of session objects: [peers, started]
    sentTo,      \* sentTo[c]: the send calls made on connection c, in order
    nrecv,       \* nrecv[c]: messages received from connection c
    snap,        \* snap[c]: peers of the session when the current message arrived
    bdone,       \* bdone[c]: the for loop of the current message ran to its end
    term,        \* term[c]: why handler c terminated
    owed,        \* owed[c]: peers the for loop had not reached when a send failed
    hadTwo       \* hadTwo[o]: session object o has held two peers at once

vars == << accepted, path, closed, pc, session_id, session, data, it, tgt,
           sessions, objs, sentTo, nrecv, snap, bdone, term, owed, hadTwo >>

\* No session object (sessions.get found nothing).
NoObj == 0
NoData == 0

Connected == 1..accepted

\* A send on connection p raises ConnectionClosed: the peer closed it, or its
\* handler returned and the server closed it.
IsClosed(p) == closed[p] \/ pc[p] = "done"

TotalRecv == LET RECURSIVE Sum(_)
                 Sum(k) == IF k = 0 THEN 0 ELSE nrecv[k] + Sum(k - 1)
             IN  Sum(Cardinality(Conns))

\* ------------------------------------------------------------- registry
\* list.remove: drops the first occurrence of x.
Remove(s, x) ==
    LET k == CHOOSE i \in 1..Len(s) : s[i] = x /\ \A j \in 1..(i - 1) : s[j] # x
    IN  SubSeq(s, 1, k - 1) \o SubSeq(s, k + 1, Len(s))

InList(s, x) == \E i \in 1..Len(s) : s[i] = x

\* A join that always stores a fresh entry, as a join that tested for the
\* entry before another join created it would.
JoinOverwrite(S, O, sid, ws) ==
    [S |-> (sid :> ws) @@ S,
     O |-> (ws :> [peers |-> <<ws>>, started |-> FALSE]) @@ O]

\* A join that appends the connection to the list it has just created.
JoinTwice(S, O, sid, ws) ==
    IF sid \notin DOMAIN S
    THEN [S |-> (sid :> ws) @@ S,
          O |-> (ws :> [peers |-> <<ws, ws>>, started |-> FALSE]) @@ O]
    ELSE [S |-> S,
          O |-> [O EXCEPT ![S[sid]].peers = Append(@, ws)]]

\* Lines 35-38: create the entry with this peer, or append to the entry.
\* A new session object is named after the connection that creates it.
Join(S, O, sid, ws) ==
    IF sid \notin DOMAIN S
    THEN [S |-> (sid :> ws) @@ S,
          O |-> (ws :> [peers |-> <<ws>>, started |-> FALSE]) @@ O]
    ELSE [S |-> S,
          O |-> [O EXCEPT ![S[sid]].peers = Append(@, ws)]]

\* The guard of the finally block, line 62.
LeaveGuard(sid) == Truthy(sid)

\* A finally block that keeps the entry of the last peer.
LeaveNoDelete(S, O, sid, ws) ==
    IF LeaveGuard(sid) /\ sid \in DOMAIN S
    THEN LET o  == S[sid]
             ps == IF InList(O[o].peers, ws) THEN Remove(O[o].peers, ws)
                                             ELSE O[o].peers
         IN  [S |-> S, O |-> [O EXCEPT ![o].peers = ps]]
    ELSE [S |-> S, O |-> O]

\* A finally block that deletes the entry whoever is left in it.
LeaveDeletesEntry(S, O, sid, ws) ==
    IF LeaveGuard(sid) /\ sid \in DOMAIN S
    THEN LET o  == S[sid]
             ps == IF InList(O[o].peers, ws) THEN Remove(O[o].peers, ws)
                                             ELSE O[o].peers
         IN  [S |-> [k \in (DOMAIN S) \ {sid} |-> S[k]],
              O |-> [O EXCEPT ![o].peers = ps]]
    ELSE [S |-> S, O |-> O]

\* A finally block that drops the last peer of the list when the
\* connection is not in it.
LeavePop(S, O, sid, ws) ==
    IF LeaveGuard(sid) /\ sid \in DOMAIN S
    THEN LET o  == S[sid]
             ps == IF InList(O[o].peers, ws)
                   THEN Remove(O[o].peers, ws)
                   ELSE SubSeq(O[o].peers, 1, Len(O[o].peers) - 1)
             O2 == [O EXCEPT ![o].peers = ps]
         IN  IF Len(ps) = 0
             THEN [S |-> [k \in (DOMAIN S) \ {sid} |-> S[k]], O |-> O2]
             ELSE [S |-> S, O |-> O2]
    ELSE [S |-> S, O |-> O]

\* A finally block that clears started when a peer leaves.
LeaveResetsStarted(S, O, sid, ws) ==
    IF LeaveGuard(sid) /\ sid \in DOMAIN S
    THEN LET o  == S[sid]
             ps == IF InList(O[o].peers, ws) THEN Remove(O[o].peers, ws)
                                             ELSE O[o].peers
             O2 == [O EXCEPT ![o] = [peers |-> ps, started |-> FALSE]]
         IN  IF Len(ps) = 0
             THEN [S |-> [k \in (DOMAIN S) \ {sid} |-> S[k]], O |-> O2]
             ELSE [S |-> S, O |-> O2]
    ELSE [S |-> S, O |-> O]

\* Lines 62-69: the finally block.
Leave(S, O, sid, ws) ==
    IF LeaveGuard(sid) /\ sid \in DOMAIN S
    THEN LET o  == S[sid]
             ps == IF InList(O[o].peers, ws) THEN Remove(O[o].peers, ws)
                                             ELSE O[o].peers
             O2 == [O EXCEPT ![o].peers = ps]
         IN  IF Len(ps) = 0
             THEN [S |-> [k \in (DOMAIN S) \ {sid} |-> S[k]], O |-> O2]
             ELSE [S |-> S, O |-> O2]
    ELSE [S |-> S, O |-> O]

\* Line 41: sessions.get(session_id).
SessionsGet(S, sid) == IF sid \in DOMAIN S THEN S[sid] ELSE NoObj

\* Start conditions that forget the started flag, or count one peer too
\* few, or one too many.
NeedStartAlways(s) == Len(s.peers) >= 2
NeedStartOne(s) == Len(s.peers) >= 1 /\ s.started = FALSE
NeedStartThree(s) == Len(s.peers) >= 3 /\ s.started = FALSE

\* Line 42: the start condition.
NeedStart(s) == Len(s.peers) >= 2 /\ s.started = FALSE

\* Addressing the peer that joined last.
LastPeer(s) == s.peers[Len(s.peers)]

\* Line 45: the peer start_session is addressed to.
FirstPeer(s) == s.peers[1]

\* An iterator that steps back onto the peer it has just served.
NextTargetNoAdvance(ps, i, ws) ==
    LET from == IF i > 1 THEN i - 1 ELSE 1
        cand == { j \in from..Len(ps) : ps[j] # ws }
    IN  IF cand = {} THEN 0
        ELSE CHOOSE j \in cand : \A k \in cand : j <= k

\* Lines 51-52: the next index at or after i whose peer is not the sender,
\* 0 when the iterator is exhausted.
NextTarget(ps, i, ws) ==
    LET cand == { j \in i..Len(ps) : ps[j] # ws }
    IN  IF cand = {} THEN 0
        ELSE CHOOSE j \in cand : \A k \in cand : j <= k

\* Peers at index i or later, the sender excluded.
Rest(ps, i, ws) == { ps[j] : j \in { k \in i..Len(ps) : ps[k] # ws } }

PeerSet(ps) == { ps[j] : j \in 1..Len(ps) }

\* ------------------------------------------------------------- handler
\* The result of running handler c to its next suspension point: the
\* registry, the send log and the handler's own fields.
Outcome(S, O, log, c, p, o, i, t, cause, rest, fin) ==
    [S |-> S, O |-> O, log |-> log, pc |-> p, session |-> o, it |-> i,
     tgt |-> t, term |-> cause, owed |-> rest, bdone |-> fin]

\* Lines 56-69: an exception leaves the loop, is printed, and the finally
\* block runs; the handler returns.
Raise(S, O, log, c, sid, o, cause, rest, fin) ==
    LET r == Leave(S, O, sid, c)
    IN  Outcome(r.S, r.O, log, c, "done", o, 0, 0, cause, rest, fin)

\* One send call on connection p.
Call(log, p, kind, c, d) ==
    [log EXCEPT ![p] = Append(@, [kind |-> kind, by |-> c, data |-> d])]

\* Lines 41-48: the top of the while loop, up to the await of the start
\* send or of recv.
LoopTop(S, O, log, c, sid, fin) ==
    LET o == SessionsGet(S, sid)
    IN  IF o = NoObj
        THEN Raise(S, O, log, c, sid, o, "error", {}, fin)
        ELSE IF NeedStart(O[o])
        THEN LET O1    == [O EXCEPT ![o].started = TRUE]
                 first == FirstPeer(O1[o])
                 log1  == Call(log, first, "start", c, NoData)
             IN  IF IsClosed(first)
                 THEN Raise(S, O1, log1, c, sid, o, "start_send", {}, fin)
                 ELSE Outcome(S, O1, log1, c, "send_start", o, 0, first,
                              "none", {}, fin)
        ELSE Outcome(S, O, log, c, "recv", o, 0, 0, "none", {}, fin)

\* Lines 51-54: the for loop from iterator position i, up to the await of
\* the next send; at the end of the list, on to the top of the while loop.
ForLoop(S, O, log, c, sid, o, d, i) ==
    LET ps == O[o].peers
        j  == NextTarget(ps, i, c)
    IN  IF j = 0
        THEN LoopTop(S, O, log, c, sid, TRUE)
        ELSE LET log1 == Call(log, ps[j], "relay", c, d)
             IN  IF IsClosed(ps[j])
                 THEN Raise(S, O, log1, c, sid, o, "relay_send",
                            Rest(ps, j + 1, c), FALSE)
                 ELSE Outcome(S, O, log1, c, "send", o, j + 1, ps[j],
                              "none", {}, FALSE)

\* Install the outcome r of a step of handler c; sn is the record of the
\* peers present when the current message arrived.  The records of a
\* broadcast are dropped when the handler returns.
Apply(c, r, sn) ==
    /\ sessions' = r.S
    /\ objs' = r.O
    /\ sentTo' = r.log
    /\ pc' = [pc EXCEPT ![c] = r.pc]
    /\ session' = [session EXCEPT ![c] = r.session]
    /\ it' = [it EXCEPT ![c] = r.it]
    /\ tgt' = [tgt EXCEPT ![c] = r.tgt]
    /\ term' = [term EXCEPT ![c] = r.term]
    /\ owed' = [owed EXCEPT ![c] = r.owed]
    /\ bdone' = [bdone EXCEPT ![c] = r.bdone /\ r.pc # "done"]
    /\ snap' = [snap EXCEPT ![c] = IF r.pc = "done" THEN {} ELSE sn]

\* ------------------------------------------------------------- actions
Init ==
    /\ accepted = 0
    /\ path = [c \in Conns |-> <<>>]
    /\ closed = [c \in Conns |-> FALSE]
    /\ pc = [c \in Conns |-> "idle"]
    /\ session_id = [c \in Conns |-> None]
    /\ session = [c \in Conns |-> NoObj]
    /\ data = [c \in Conns |-> NoData]
    /\ it = [c \in Conns |-> 0]
    /\ tgt = [c \in Conns |-> 0]
    /\ sessions = <<>>
    /\ objs = <<>>
    /\ sentTo = [c \in Conns |-> <<>>]
    /\ nrecv = [c \in Conns |-> 0]
    /\ snap = [c \in Conns |-> {}]
    /\ bdone = [c \in Conns |-> FALSE]
    /\ term = [c \in Conns |-> "none"]
    /\ owed = [c \in Conns |-> {}]
    /\ hadTwo = [c \in Conns |-> FALSE]

\* Lines 26-30: a connection with a path outside the prefix; the handler
\* returns through the finally block with session_id = None.
Reject(p, limit) ==
    /\ accepted < limit
    /\ ~StartsWith(p, Prefix)
    /\ LET c == accepted + 1
           r == Leave(sessions, objs, None, c)
       IN  /\ accepted' = c
           /\ path' = [path EXCEPT ![c] = p]
           /\ Apply(c, Outcome(r.S, r.O, sentTo, c, "done", NoObj, 0, 0,
                               "reject", {}, FALSE), {})
    /\ UNCHANGED << closed, session_id, data, nrecv, hadTwo >>

\* Lines 26-48: a connection with a session path; the handler joins and
\* runs the top of the loop.
Connect(p, limit) ==
    /\ accepted < limit
    /\ StartsWith(p, Prefix)
    /\ LET c   == accepted + 1
           sid == PartitionLast(p, Prefix)
           r   == Join(sessions, objs, sid, c)
       IN  /\ accepted' = c
           /\ path' = [path EXCEPT ![c] = p]
           /\ session_id' = [session_id EXCEPT ![c] = sid]
           /\ hadTwo' = [o \in Conns |->
                 hadTwo[o] \/ (o \in DOMAIN r.O /\ Len(r.O[o].peers) >= 2)]
           /\ Apply(c, LoopTop(r.S, r.O, sentTo, c, sid, FALSE), {})
    /\ UNCHANGED << closed, data, nrecv >>

\* The peer closes connection c, or its transport fails.
Close(c) ==
    /\ c \in Connected
    /\ pc[c] # "done"
    /\ ~closed[c]
    /\ closed' = [closed EXCEPT ![c] = TRUE]
    /\ UNCHANGED << accepted, path, pc, session_id, session, data, it, tgt,
                    sessions, objs, sentTo, nrecv, snap, bdone, term, owed,
                    hadTwo >>

\* Line 48 raises ConnectionClosed; lines 56-69.
RecvClosed(c) ==
    /\ pc[c] = "recv"
    /\ closed[c]
    /\ Apply(c, Raise(sessions, objs, sentTo, c, session_id[c], session[c],
                      "closed", {}, bdone[c]), snap[c])
    /\ UNCHANGED << accepted, path, closed, session_id, data, nrecv, hadTwo >>

\* Line 48 returns the next message; lines 49-54 up to the first send.
Recv(c, limit) ==
    /\ pc[c] = "recv"
    /\ ~closed[c]
    /\ TotalRecv < limit
    /\ LET d == nrecv[c] + 1
       IN  /\ data' = [data EXCEPT ![c] = d]
           /\ nrecv' = [nrecv EXCEPT ![c] = d]
           /\ Apply(c, ForLoop(sessions, objs, sentTo, c, session_id[c],
                               session[c], d, 1),
                    PeerSet(objs[session[c]].peers))
    /\ UNCHANGED << accepted, path, closed, session_id, hadTwo >>

\* Line 54 returns: the send completed (the peer may have closed since).
SendDone(c) ==
    /\ pc[c] = "send"
    /\ Apply(c, ForLoop(sessions, objs, sentTo, c, session_id[c],
                        session[c], data[c], it[c]), snap[c])
    /\ UNCHANGED << accepted, path, closed, session_id, data, nrecv, hadTwo >>

\* Line 54 raises: the connection of the target closed during the send.
SendFail(c) ==
    /\ pc[c] = "send"
    /\ IsClosed(tgt[c])
    /\ Apply(c, Raise(sessions, objs, sentTo, c, session_id[c], session[c],
                      "relay_send",
                      Rest(objs[session[c]].peers, it[c], c), FALSE), snap[c])
    /\ UNCHANGED << accepted, path, closed, session_id, data, nrecv, hadTwo >>

\* Line 47 returns; line 48 awaits recv.
StartDone(c) ==
    /\ pc[c] = "send_start"
    /\ Apply(c, Outcome(sessions, objs, sentTo, c, "recv", session[c], 0, 0,
                        "none", {}, bdone[c]), snap[c])
    /\ UNCHANGED << accepted, path, closed, session_id, data, nrecv, hadTwo >>

\* Line 47 raises: the first peer's connection closed during the send.
StartFail(c) ==
    /\ pc[c] = "send_start"
    /\ IsClosed(tgt[c])
    /\ Apply(c, Raise(sessions, objs, sentTo, c, session_id[c], session[c],
                      "start_send", {}, bdone[c]), snap[c])
    /\ UNCHANGED << accepted, path, closed, session_id, data, nrecv, hadTwo >>

Next ==
    \/ \E p \in Paths : Reject(p, NConn)
    \/ \E p \in Paths : Connect(p, NConn)
    \/ \E c \in Conns : Close(c)
    \/ \E c \in Conns : RecvClosed(c)
    \/ \E c \in Conns : Recv(c, MaxRecv)
    \/ \E c \in Conns : SendDone(c)
    \/ \E c \in Conns : SendFail(c)
    \/ \E c \in Conns : StartDone(c)
    \/ \E c \in Conns : StartFail(c)

Spec == Init /\ [][Next]_vars

\* Every connection asks for the same session: the relay among the peers
\* of one session, with more messages.
RelayPath == Prefix \o <<"a">>

NextRelay ==
    \/ Connect(RelayPath, NRelay)
    \/ \E c \in Conns : Close(c)
    \/ \E c \in Conns : RecvClosed(c)
    \/ \E c \in Conns : Recv(c, MaxRelay)
    \/ \E c \in Conns : SendDone(c)
    \/ \E c \in Conns : SendFail(c)
    \/ \E c \in Conns : StartDone(c)
    \/ \E c \in Conns : StartFail(c)

SpecRelay == Init /\ [][NextRelay]_vars

\* Joins and departures alone, no message relayed: the registries the
\* finally block can meet.
NextMembers ==
    \/ \E p \in Paths : Reject(p, NConn)
    \/ \E p \in Paths : Connect(p, NConn)
    \/ \E c \in Conns : Close(c)
    \/ \E c \in Conns : RecvClosed(c)
    \/ \E c \in Conns : StartDone(c)
    \/ \E c \in Conns : StartFail(c)

SpecMembers == Init /\ [][NextMembers]_vars

\* ------------------------------------------------------------- properties
Peers(o) == PeerSet(objs[o].peers)

\* Handler c went past the prefix test and joined a session.
Joined(c) == c \in Connected /\ StartsWith(path[c], Prefix)

\* The send calls of one kind made on connection b.
Calls(b, kind) == { i \in 1..Len(sentTo[b]) : sentTo[b][i].kind = kind }

\* Message n of sender a was issued to b.
Relayed(a, n, b) ==
    \E i \in Calls(b, "relay") : sentTo[b][i].by = a /\ sentTo[b][i].data = n

\* The start_session calls made for session object o.
StartsOf(o) ==
    UNION { { <<c, i>> : i \in { k \in Calls(c, "start") :
                                   session[sentTo[c][k].by] = o } } :
            c \in Conns }

\* No send call of any handler has raised.
NoSendFailed == \A c \in Conns : term[c] \notin {"relay_send", "start_send"}

\* C1: when the for loop of a handler has run to its end and no send has
\* failed, every other peer that was in the session from the arrival of
\* the message until now has been sent the message.
BroadcastReachesAll ==
    \A a \in Conns :
        (bdone[a] /\ NoSendFailed) =>
            \A b \in (snap[a] \cap Peers(session[a])) \ {a} :
                Relayed(a, data[a], b)

\* C2: when a relayed send fails, the peers the for loop had not reached
\* yet are still sent the message.
SendFailureIsolated ==
    \A a \in Conns :
        term[a] = "relay_send" => \A b \in owed[a] : Relayed(a, data[a], b)

\* C3: a handler whose own connection is open has not terminated and its
\* connection is in the peer list of its session.
OpenPeerStays ==
    \A c \in Conns :
        (Joined(c) /\ ~closed[c]) =>
            /\ pc[c] # "done"
            /\ session_id[c] \in DOMAIN sessions
            /\ c \in Peers(sessions[session_id[c]])

\* C4: a terminated handler's connection is in no peer list, and every
\* session of the registry has a peer whose handler has not terminated.
CleanedUp ==
    /\ \A c \in Conns : \A sid \in DOMAIN sessions :
           pc[c] = "done" => c \notin Peers(sessions[sid])
    /\ \A sid \in DOMAIN sessions :
           \E c \in Peers(sessions[sid]) : pc[c] # "done"

\* C5: every start_session call is made on the connection that created
\* the session object of the handler making the call (a session object is
\* named after the connection that created it).
StartOnlyToFirst ==
    \A c \in Conns : \A i \in Calls(c, "start") :
        c = session[sentTo[c][i].by]

StartToFirstOfThree ==
    \E c \in Conns :
        /\ Calls(c, "start") # {}
        /\ Cardinality({ d \in Conns : session[d] = c }) >= 3
        /\ pc[c] # "done"

\* C6: at most one start_session call is made for a session object, and
\* none for an object that never held two peers at once.
AtMostOneStartInv ==
    \A o \in Conns :
        /\ Cardinality(StartsOf(o)) <= 1
        /\ StartsOf(o) # {} => hadTwo[o]

\* A started session that lost a peer and holds a later joiner.
AtMostOneStart == []AtMostOneStartInv

ThirdJoinNoStart ==
    \E o \in Conns :
        /\ Cardinality(StartsOf(o)) = 1
        /\ Cardinality({ d \in Conns : session[d] = o }) >= 3
        /\ \E d \in Conns : session[d] = o /\ pc[d] = "done"
        /\ o \in DOMAIN objs /\ Len(objs[o].peers) = 2

\* C7: in every state a session that is not started has at most one peer
\* and a started one has held two peers at once; in every step started
\* never goes back to false, a new object is not started, and started
\* becomes true in the step in which the peer count becomes two.
StartedInv ==
    \A o \in DOMAIN objs :
        /\ ~objs[o].started => Len(objs[o].peers) <= 1
        /\ objs[o].started => hadTwo[o]

StartedStep ==
    /\ \A o \in DOMAIN objs :
           /\ o \in DOMAIN objs'
           /\ objs[o].started => objs'[o].started
           /\ (~objs[o].started /\ objs'[o].started) =>
                  (Len(objs[o].peers) = 1 /\ hadTwo'[o] /\ ~hadTwo[o])
    /\ \A o \in (DOMAIN objs') \ (DOMAIN objs) : ~objs'[o].started

StartedOnceAtTwo == []StartedInv /\ [][StartedStep]_vars

StartedThenOnePeer ==
    \E o \in DOMAIN objs :
        /\ objs[o].started
        /\ Len(objs[o].peers) = 1
        /\ \E sid \in DOMAIN sessions : sessions[sid] = o

\* C8: on the connection that created a session, every relayed send call
\* comes after a start_session call.
StartBeforeRelayInv ==
    \A c \in Conns : \A i \in Calls(c, "relay") :
        session[c] = c => \E j \in Calls(c, "start") : j < i

StartBeforeRelay == []StartBeforeRelayInv

FirstPeerStartedThenRelayed ==
    \E c \in Conns :
        /\ session[c] = c
        /\ Calls(c, "relay") # {}
        /\ ~closed[c] /\ pc[c] # "done"

\* C9: the messages relayed from one sender to one receiver are issued in
\* the order of their arrival, each once.
RelayInOrder ==
    \A b \in Conns : \A i, j \in Calls(b, "relay") :
        (i < j /\ sentTo[b][i].by = sentTo[b][j].by) =>
            sentTo[b][i].data < sentTo[b][j].data

TwoRelayedInOrder ==
    \E a, b \in Conns :
        /\ Relayed(a, 1, b)
        /\ Relayed(a, 2, b)
        /\ pc[a] = "recv"

\* C10: a relayed send call is never made on the sender's own connection
\* nor on a connection whose path names another session identifier.
RelayStaysInv ==
    \A b \in Conns : \A i \in Calls(b, "relay") :
        LET a == sentTo[b][i].by
        IN  /\ a # b
            /\ StartsWith(path[b], Prefix)
            /\ path[a] = path[b]

RelayStaysInSession == []RelayStaysInv

RelayedBesideOtherCase ==
    \E a, b, c \in Conns :
        /\ Relayed(a, 1, b)
        /\ path[a] = Prefix \o <<"a">>
        /\ path[c] = Prefix \o <<"A">>
        /\ pc[c] = "recv"
        /\ sentTo[c] = <<>>

\* The path p does not begin with '/v1/ooo/'.
OutsidePrefix(p) ==
    \E i \in 1..Len(Prefix) : i > Len(p) \/ p[i] # Prefix[i]

\* Handler c ran in this step.
Stepped(c) ==
    <<pc[c], it[c], nrecv[c]>> # <<pc'[c], it'[c], nrecv'[c]>>

\* C11: a connection whose path is outside the prefix is in no peer list,
\* has captured no session, and no send call is made on it or by its
\* handler; the step that handles it leaves the registry and the send log
\* unchanged and ends its handler.
RejectedInv ==
    \A c \in Connected :
        OutsidePrefix(path[c]) =>
            /\ pc[c] = "done"
            /\ session_id[c] = None /\ session[c] = NoObj
            /\ sentTo[c] = <<>>
            /\ \A o \in DOMAIN objs : c \notin Peers(o)
            /\ \A b \in Conns : \A i \in 1..Len(sentTo[b]) :
                   sentTo[b][i].by # c

RejectStep ==
    \A c \in Conns :
        (Stepped(c) /\ OutsidePrefix(path'[c])) =>
            /\ sessions' = sessions
            /\ objs' = objs
            /\ sentTo' = sentTo

RejectedTouchesNothing == []RejectedInv /\ [][RejectStep]_vars

RejectedBesideSession ==
    \E c \in Connected :
        /\ term[c] = "reject"
        /\ c > 1
        /\ DOMAIN sessions # {}

\* C12: no entry of the registry has an empty peer list; an entry is
\* created with exactly one peer, and an entry is deleted in the step that
\* removes its last peer.
NoEmptyInv ==
    \A sid \in DOMAIN sessions : Len(objs[sessions[sid]].peers) >= 1

NoEmptyStep ==
    /\ \A sid \in (DOMAIN sessions') \ (DOMAIN sessions) :
           Len(objs'[sessions'[sid]].peers) = 1
    /\ \A sid \in (DOMAIN sessions) \ (DOMAIN sessions') :
           /\ Len(objs[sessions[sid]].peers) = 1
           /\ Len(objs'[sessions[sid]].peers) = 0

NoEmptySession == []NoEmptyInv /\ [][NoEmptyStep]_vars

SessionDeleted ==
    \E c \in Connected :
        /\ term[c] = "closed"
        /\ session_id[c] \notin DOMAIN sessions
        /\ DOMAIN sessions # {}

\* C13: every handler that has joined and not terminated has its
\* connection in the peer list of the entry of its session identifier,
\* and every peer list is in the order of the joins (connections are
\* numbered in the order in which their handlers join).
JoinsKeptInv ==
    /\ \A c \in Connected :
           (~OutsidePrefix(path[c]) /\ pc[c] # "done") =>
               /\ session_id[c] \in DOMAIN sessions
               /\ c \in Peers(sessions[session_id[c]])
    /\ \A sid \in DOMAIN sessions :
           LET ps == objs[sessions[sid]].peers
           IN  \A i, j \in 1..Len(ps) : i < j => ps[i] < ps[j]

JoinsKept == []JoinsKeptInv

ThreeJoinedOneEntry ==
    \E sid \in DOMAIN sessions :
        /\ Len(objs[sessions[sid]].peers) = 3
        /\ \A c \in Peers(sessions[sid]) : pc[c] # "done"

\* The session identifiers a cleanup is tried with: those of the paths, one
\* that no path names, and None.
LeaveIds ==
    { PartitionLast(p, Prefix) : p \in { q \in Paths : StartsWith(q, Prefix) } }
        \cup { <<"z">>, None }

\* C14: in every reachable registry, for every session identifier and
\* connection, a second cleanup changes nothing after the first, and a
\* cleanup for a connection not in the list, an identifier not in the
\* registry or no identifier changes nothing; every such application has a
\* value.
LeaveIdempotent ==
    \A sid \in LeaveIds : \A ws \in Conns :
        LET r1 == Leave(sessions, objs, sid, ws)
            r2 == Leave(r1.S, r1.O, sid, ws)
        IN  /\ r2 = r1
            /\ (\/ sid = None
                \/ sid \notin DOMAIN sessions
                \/ ws \notin Peers(sessions[sid]))
                   => r1 = [S |-> sessions, O |-> objs]

\* A peer has left a session that two other peers are still in, and the
\* cleanup of either would change the registry.
LeaveActs ==
    \E c \in Connected : \E sid \in DOMAIN sessions :
        /\ term[c] = "closed"
        /\ session_id[c] = sid
        /\ Len(objs[sessions[sid]].peers) = 2
        /\ \A ws \in Peers(sessions[sid]) :
               Leave(sessions, objs, sid, ws) # [S |-> sessions, O |-> objs]

\* The list ps without connection c.
Without(ps, c) == SelectSeq(ps, LAMBDA x : x # c)

\* Handler c is between its join and its cleanup.
InLoop(c) == pc[c] \in {"recv", "send", "send_start"}

\* C15: a step of a handler changes no session object and no registry
\* entry but those of its own session; the step in which a joined handler
\* terminates keeps started, changes the peer list of its session at most
\* by removing its own connection, and deletes the entry only when that
\* list has become empty.
OwnSessionStep ==
    \A c \in Conns :
        Stepped(c) =>
            /\ \A o \in DOMAIN objs :
                   o # session'[c] => (o \in DOMAIN objs' /\ objs'[o] = objs[o])
            /\ \A sid \in (DOMAIN sessions) \cup (DOMAIN sessions') :
                   sid # session_id'[c] =>
                       /\ sid \in (DOMAIN sessions) \cap (DOMAIN sessions')
                       /\ sessions'[sid] = sessions[sid]
            /\ (InLoop(c) /\ pc'[c] = "done") =>
                   LET o == session[c]
                   IN  /\ objs'[o].started = objs[o].started
                       /\ objs'[o].peers \in
                              {objs[o].peers, Without(objs[o].peers, c)}
                       /\ \A sid \in DOMAIN sessions :
                              IF sid \in DOMAIN sessions'
                              THEN sessions'[sid] = sessions[sid]
                              ELSE objs'[o].peers = <<>>

OwnSessionOnly == [][OwnSessionStep]_vars

\* A handler has failed on a send and left a started session that another
\* peer is still in, while another session exists.
FailedBesideOthers ==
    \E c \in Connected :
        /\ term[c] \in {"relay_send", "start_send"}
        /\ Truthy(session_id[c])
        /\ session_id[c] \in DOMAIN sessions
        /\ objs[sessions[session_id[c]]].started
        /\ c \notin Peers(sessions[session_id[c]])
        /\ \E sid \in DOMAIN sessions : sid # session_id[c]

\* C16: no peer list of the registry holds a connection twice, and no
\* connection is in the peer lists of two entries.
NoDuplicatesInv ==
    /\ \A sid \in DOMAIN sessions :
           LET ps == objs[sessions[sid]].peers
           IN  \A i, j \in 1..Len(ps) : i # j => ps[i] # ps[j]
    /\ \A sid1, sid2 \in DOMAIN sessions :
           sid1 # sid2 => Peers(sessions[sid1]) \cap Peers(sessions[sid2]) = {}

NoDuplicates == []NoDuplicatesInv

TwoSessionsWithPeers ==
    \E sid1, sid2 \in DOMAIN sessions :
        /\ sid1 # sid2
        /\ Len(objs[sessions[sid1]].peers) = 2
        /\ Len(objs[sessions[sid2]].peers) = 1

\* C17: while a handler is between its join and its cleanup the registry
\* holds an entry for its session identifier, the entry is the session
\* object the handler holds, and the object's peer list holds the
\* handler's connection; no handler has found sessions.get empty.
HandlerSeesEntryInv ==
    /\ \A c \in Conns :
           InLoop(c) =>
               /\ session_id[c] \in DOMAIN sessions
               /\ sessions[session_id[c]] = session[c]
               /\ c \in Peers(session[c])
    /\ \A c \in Conns : term[c] # "error"

\* An entry was deleted and created again under the same identifier: a
\* terminated handler holds the old object, a broadcasting one the new.
HandlerSeesEntry == []HandlerSeesEntryInv

EntryReplaced ==
    \E c, d \in Connected :
        /\ pc[c] = "done"
        /\ session_id[c] = session_id[d]
        /\ session[c] # NoObj
        /\ session[d] # session[c]
        /\ pc[d] = "recv"
        /\ nrecv[d] >= 1

\* ------------------------------------------------------------- liveness
\* The event loop runs every task that is ready: a handler whose recv or
\* send has completed or failed takes its next step.  Every connection is
\* eventually closed by its peer.
Fairness ==
    \A c \in Conns :
        /\ WF_vars(Close(c))
        /\ WF_vars(RecvClosed(c))
        /\ WF_vars(SendDone(c) \/ SendFail(c))
        /\ WF_vars(StartDone(c) \/ StartFail(c))

SpecLive == Init /\ [][Next]_vars /\ Fairness

AllTerminated == \A c \in Connected : pc[c] = "done"

\* C18: when every connection is eventually closed (and the connections
\* are finitely many), eventually every handler has terminated and the
\* registry is empty, for good.
EventuallyEmpty == <>[](AllTerminated /\ DOMAIN sessions = {})

====
